---- MODULE Spec2Model ----
(***************************************************************************)
(* Workflow automation: the ingestion loop of processor.py (Service Bus    *)
(* queue -> Cosmos DB document -> SQL workflow row -> acknowledgment), the  *)
(* status-logging capabilities of status_logging_agent.py (log_step,       *)
(* update_workflow_status) and the controller loop that the orchestrator   *)
(* agent is instructed to follow (orchestrator_agent.py, instructions      *)
(* 1-17).                                                                  *)
(***************************************************************************)
EXTENDS Integers, Sequences, FiniteSets, TLC

\* ---------------------------------------------------------------- bounds
MaxMsgs == 2          \* messages initially on the queue
MaxSteps == 2         \* longest Steps list of a workflow document
MaxDeliveries == 2    \* deliveries made by the receiver (redeliveries included)
MaxRuns == 2          \* controller invocations (orchestrator main() runs)
MaxApps == 2          \* distinct application documents handed to a capability

Messages == 1..MaxMsgs
WorkflowIds == 1..MaxDeliveries

\* Python's None, as returned by store_in_cosmosdb on failure; also "no
\* message in flight".  Generated identifiers start at 1.
NoDoc == 0

\* ------------------------------------------------------- message parsing
\* The text of a queue message: a JSON object with a Steps list of the given
\* length, a JSON object without a Steps key (Steps = 0), or text that is
\* not JSON.
Bodies == [json : {TRUE}, Steps : 0..MaxSteps] \cup [json : {FALSE}, Steps : {0}]

\* json.loads(str(message)): the parsed payload, or JSONDecodeError raised.
json_loads(m, b) ==
    IF b.json
    THEN [JSONDecodeError |-> FALSE,
          data |-> IF b.Steps = 0 THEN [ref |-> m]
                                  ELSE [ref |-> m, Steps |-> b.Steps]]
    ELSE [JSONDecodeError |-> TRUE]

\* raw_message_data = {"rawMessage": str(message)}
raw_message_data(m) == [rawMessage |-> m]

\* ----------------------------------------------------- processor.py stores
\* store_in_cosmosdb returning the generated id from its except branch.
store_in_cosmosdb_id_on_error(cont, fresh, message_data, cosmosOk) ==
    IF cosmosOk
    THEN [container |-> cont \cup {[id |-> fresh, partitionKey |-> fresh,
                                    messageData |-> message_data]},
          doc_id |-> fresh]
    ELSE [container |-> cont, doc_id |-> fresh]

\* store_in_cosmosdb: the document is keyed by a fresh identifier; a Cosmos
\* error is swallowed and None is returned.
store_in_cosmosdb(cont, fresh, message_data, cosmosOk) ==
    IF cosmosOk
    THEN [container |-> cont \cup {[id |-> fresh, partitionKey |-> fresh,
                                    messageData |-> message_data]},
          doc_id |-> fresh]
    ELSE [container |-> cont, doc_id |-> NoDoc]

\* insert_workflow_record inserting current_step 0 instead of 1.
insert_workflow_record_wrong_step(table, workflow_id, sqlOk) ==
    IF sqlOk
    THEN [table |-> table \cup {[id |-> workflow_id, status |-> "Initial",
                                 current_step |-> 0]},
          ret |-> TRUE]
    ELSE [table |-> table, ret |-> FALSE]

\* insert_workflow_record: INSERT INTO workflow (id, "Initial", 1, now); a
\* database error is swallowed and False is returned.
insert_workflow_record(table, workflow_id, sqlOk) ==
    IF sqlOk
    THEN [table |-> table \cup {[id |-> workflow_id, status |-> "Initial",
                                 current_step |-> 1]},
          ret |-> TRUE]
    ELSE [table |-> table, ret |-> FALSE]

\* ------------------------------------------- status_logging_agent.py stores
\* log_step keeping one row per workflow instead of appending.
log_step_overwrite(log, step, status, dbOk) ==
    [log |-> IF dbOk THEN <<[step |-> step, status |-> status]>> ELSE log,
     ret |-> TRUE]

\* log_step: INSERT INTO workflow_step_status; a database error is swallowed
\* and True is returned either way.
log_step(log, step, status, dbOk) ==
    [log |-> IF dbOk THEN Append(log, [step |-> step, status |-> status]) ELSE log,
     ret |-> TRUE]

\* update_workflow_status without its WHERE clause.
update_workflow_status_all_rows(table, current_step, workflow_id, status, dbOk) ==
    [table |-> IF dbOk
               THEN {[r EXCEPT !.current_step = current_step, !.status = status] :
                        r \in table}
               ELSE table,
     ret |-> TRUE]

\* update_workflow_status returning False from its except branch.
update_workflow_status_ret_false(table, current_step, workflow_id, status, dbOk) ==
    [table |-> IF dbOk
               THEN {IF r.id = workflow_id
                     THEN [r EXCEPT !.current_step = current_step, !.status = status]
                     ELSE r : r \in table}
               ELSE table,
     ret |-> dbOk]

\* update_workflow_status: UPDATE workflow SET current_step, status WHERE
\* id = workflow_id, whatever the row's present status; a database error is
\* swallowed and True is returned either way.
update_workflow_status(table, current_step, workflow_id, status, dbOk) ==
    [table |-> IF dbOk
               THEN {IF r.id = workflow_id
                     THEN [r EXCEPT !.current_step = current_step, !.status = status]
                     ELSE r : r \in table}
               ELSE table,
     ret |-> TRUE]

\* --------------------------------- commercial_loan_agent.py capabilities
Applications == 1..MaxApps

\* What llm_service.get_chat_message_content does: it answers with one of
\* the two texts the prompt asks for, or it raises.
LLMReplies == {"VALID: Application contains all required information",
               "INVALID: Missing [list missing items]",
               "raise"}

\* validate_application: the reply's content is the validation result; when
\* the LLM call raises, the except branch sets the result to "VALID".
validate_application(application_data, llm) ==
    [application_data |-> application_data,
     validation_result |-> IF llm = "raise" THEN "VALID" ELSE llm]

\* get_credit_score with a lower bound below the documented range.
get_credit_score_low_bound(application_data) == 290..840

\* get_credit_score: random.randint(790, 840), both ends included; the
\* set of values one call may return.
get_credit_score(application_data) == 790..840

\* get_approval: random.choice(["approved", "pending", "rejected"]).
get_approval(application_data) == {"approved", "pending", "rejected"}

\* No capability call made yet.
NoCall == [fn |-> "none"]

\* ------------------------------------------------------------------ state
VARIABLES
    queue,        \* messages on the Service Bus queue, not yet completed
    body,         \* the text of each message
    pc,           \* position of start_listening's loop
    message,      \* the message in flight (NoDoc when none)
    doc_id,       \* process_message's doc_id for the message in flight
    inserted,     \* what insert_workflow_record returned for it
    nextId,       \* the next identifier uuid.uuid4() yields
    deliveries,   \* deliveries made so far
    container,    \* Cosmos DB container "Messages"
    workflow,     \* SQL table workflow
    stepLog,      \* SQL table workflow_step_status, per workflow_id, in write order
    ctl,          \* the controller run for each WORKFLOW_ID
    runs,         \* controller invocations so far
    call          \* the last call served by the CommercialLoan plugin

vars == <<queue, body, pc, message, doc_id, inserted, nextId, deliveries,
          container, workflow, stepLog, ctl, runs, call>>

ingestVars == <<queue, body, pc, message, doc_id, inserted, nextId, deliveries,
                container, call>>

\* A controller run: its position, the step it is at, the length of the
\* document's Steps list, the outcome of the last capability call, the
\* capability calls it has made (by step index), the length of the
\* workflow's step log when it started, what the last log_step or
\* update_workflow_status call returned to it (<<>> before any call) and
\* whether that call met a database error.
IdleCtl == [pc |-> "idle", step |-> 0, n |-> 0, ok |-> TRUE,
            attempted |-> <<>>, base |-> 0, ret |-> <<>>, dbError |-> FALSE]

Init ==
    /\ body \in [Messages -> Bodies]
    /\ queue = Messages
    /\ pc = "receive"
    /\ message = NoDoc
    /\ doc_id = NoDoc
    /\ inserted = FALSE
    /\ nextId = 1
    /\ deliveries = 0
    /\ container = {}
    /\ workflow = {}
    /\ stepLog = [w \in WorkflowIds |-> <<>>]
    /\ ctl = [w \in WorkflowIds |-> IdleCtl]
    /\ runs = 0
    /\ call = NoCall

\* ------------------------------------------------ ingestion (processor.py)
\* async for message in receiver: the queue hands over a message that has
\* not been completed (a first delivery or a redelivery).
Receive ==
    /\ pc = "receive"
    /\ deliveries < MaxDeliveries
    /\ \E m \in queue :
         /\ message' = m
         /\ pc' = "process"
         /\ deliveries' = deliveries + 1
         /\ doc_id' = NoDoc
         /\ inserted' = FALSE
    /\ UNCHANGED <<queue, body, nextId, container, workflow, stepLog, ctl, runs,
                   call>>

\* process_message: parse, store the document, and on the JSON path create
\* the workflow record; on the JSONDecodeError path only store the raw
\* payload.  Store errors are swallowed, so the call returns normally.
ProcessMessage ==
    /\ pc = "process"
    /\ \E cosmosOk \in BOOLEAN, sqlOk \in BOOLEAN :
         LET parsed == json_loads(message, body[message])
             isJson == ~parsed.JSONDecodeError
             data   == IF isJson THEN parsed.data ELSE raw_message_data(message)
             stored == store_in_cosmosdb(container, nextId, data, cosmosOk)
             rec    == IF isJson /\ stored.doc_id # NoDoc
                       THEN insert_workflow_record(workflow, stored.doc_id, sqlOk)
                       ELSE [table |-> workflow, ret |-> FALSE]
         IN /\ container' = stored.container
            /\ doc_id' = stored.doc_id
            /\ workflow' = rec.table
            /\ inserted' = rec.ret
    /\ nextId' = nextId + 1
    /\ pc' = "complete"
    /\ UNCHANGED <<queue, body, message, deliveries, stepLog, ctl, runs, call>>

\* start_listening without its try/except: a failed complete_message ends
\* the loop.
CompleteMessage_uncaught ==
    /\ pc = "complete"
    /\ \E ok \in BOOLEAN :
         /\ queue' = IF ok THEN queue \ {message} ELSE queue
         /\ pc' = IF ok THEN "receive" ELSE "stopped"
    /\ message' = NoDoc
    /\ doc_id' = NoDoc
    /\ inserted' = FALSE
    /\ UNCHANGED <<body, nextId, deliveries, container,
                   workflow, stepLog, ctl, runs, call>>

\* await receiver.complete_message(message): removes the message; when the
\* call raises, the exception is caught, the loop goes on and the message
\* stays on the queue for redelivery.
CompleteMessage ==
    /\ pc = "complete"
    /\ \E ok \in BOOLEAN :
         queue' = IF ok THEN queue \ {message} ELSE queue
    /\ pc' = "receive"
    /\ message' = NoDoc
    /\ doc_id' = NoDoc
    /\ inserted' = FALSE
    /\ UNCHANGED <<body, nextId, deliveries, container,
                   workflow, stepLog, ctl, runs, call>>

\* main(): a KeyboardInterrupt (or the task cancellation asyncio.run turns
\* it into) is not an Exception, so no handler in process_message or
\* start_listening catches it: the loop is left where it stands.  Inside
\* process_message the writes made so far stay; inside complete_message the
\* acknowledgment may or may not have reached the queue.
Interrupt ==
    /\ pc \in {"receive", "process", "complete"}
    /\ pc' = "stopped"
    /\ IF pc = "process"
       THEN /\ \E cosmosOk \in BOOLEAN, sqlOk \in BOOLEAN :
                 LET parsed == json_loads(message, body[message])
                     isJson == ~parsed.JSONDecodeError
                     data   == IF isJson THEN parsed.data
                                         ELSE raw_message_data(message)
                     stored == store_in_cosmosdb(container, nextId, data, cosmosOk)
                     rec    == IF isJson /\ stored.doc_id # NoDoc
                               THEN insert_workflow_record(workflow, stored.doc_id,
                                                           sqlOk)
                               ELSE [table |-> workflow, ret |-> FALSE]
                 IN /\ container' = stored.container
                    /\ doc_id' = stored.doc_id
                    /\ workflow' = rec.table
                    /\ inserted' = rec.ret
            /\ nextId' = nextId + 1
            /\ UNCHANGED queue
       ELSE /\ IF pc = "complete"
               THEN \E ok \in BOOLEAN :
                      queue' = IF ok THEN queue \ {message} ELSE queue
               ELSE UNCHANGED queue
            /\ UNCHANGED <<container, doc_id, workflow, inserted, nextId>>
    /\ UNCHANGED <<body, message, deliveries, stepLog, ctl, runs, call>>

\* The ingestion process is started again (asyncio.run(main())).
Restart ==
    /\ pc = "stopped"
    /\ pc' = "receive"
    /\ message' = NoDoc
    /\ doc_id' = NoDoc
    /\ inserted' = FALSE
    /\ UNCHANGED <<queue, body, nextId, deliveries, container, workflow,
                   stepLog, ctl, runs, call>>

\* ------------------------------------- controller (orchestrator_agent.py)
HasSteps(d) == "Steps" \in DOMAIN d.messageData

\* main(): query the container by partitionKey = WORKFLOW_ID and hand the
\* first document to the agent; with no document the agent gets "".
StartController(w) ==
    /\ ctl[w].pc \in {"idle", "done"}
    /\ runs < MaxRuns
    /\ runs' = runs + 1
    /\ LET items == {d \in container : d.partitionKey = w}
       IN IF \E d \in items : HasSteps(d)
          THEN \E d \in items :
                 /\ HasSteps(d)
                 /\ ctl' = [ctl EXCEPT ![w] =
                              [pc |-> "exec", step |-> 1, n |-> d.messageData.Steps,
                               ok |-> TRUE, attempted |-> <<>>,
                               base |-> Len(stepLog[d.id]),
                               ret |-> <<>>, dbError |-> FALSE]]
          ELSE ctl' = [ctl EXCEPT ![w] = [IdleCtl EXCEPT !.pc = "done",
                                                        !.base = Len(stepLog[w])]]
    /\ UNCHANGED <<ingestVars, workflow, stepLog>>

\* Instructions 7, 12: the steps are addressed one at a time, in sequence;
\* the capability call for the current step succeeds or fails.
ExecStep(w) ==
    /\ ctl[w].pc = "exec"
    /\ \E ok \in BOOLEAN :
         ctl' = [ctl EXCEPT ![w].pc = "log", ![w].ok = ok,
                            ![w].attempted = Append(@, ctl[w].step),
                            ![w].ret = <<>>, ![w].dbError = FALSE]
    /\ UNCHANGED <<ingestVars, workflow, stepLog, runs>>

\* Instructions 8-10, 14: after each step's execution its status is logged
\* with log_step under the document's id; then the next step, or the
\* terminal update after the last step or a failed one (16, 17).
LogStep(w) ==
    /\ ctl[w].pc = "log"
    /\ \E dbOk \in BOOLEAN :
         LET res == log_step(stepLog[w], ctl[w].step,
                             IF ctl[w].ok THEN "Successful" ELSE "Failed", dbOk)
         IN /\ stepLog' = [stepLog EXCEPT ![w] = res.log]
            /\ ctl' = [ctl EXCEPT ![w] =
                         IF ~ctl[w].ok \/ ctl[w].step = ctl[w].n
                         THEN [@ EXCEPT !.pc = "update", !.ret = <<res.ret>>,
                                        !.dbError = ~dbOk]
                         ELSE [@ EXCEPT !.pc = "exec", !.step = @ + 1,
                                        !.ret = <<res.ret>>, !.dbError = ~dbOk]]
    /\ UNCHANGED <<ingestVars, workflow, runs>>

\* The status the controller is told to pass to update_workflow_status
\* after a last step that succeeded: "Completed" by instruction 16,
\* "Successful" by the capability's own description ("Status should be
\* Failed or Successful"); after a failed step both say "Failed".
StatusArgs(ok) == IF ok THEN {"Completed", "Successful"} ELSE {"Failed"}

\* Instructions 16, 17: update_workflow_status with the last step number
\* after the last step succeeded, or "Failed" and the step that failed.
UpdateStatus(w) ==
    /\ ctl[w].pc = "update"
    /\ \E dbOk \in BOOLEAN, status \in StatusArgs(ctl[w].ok) :
         LET res == update_workflow_status(workflow, ctl[w].step, w, status, dbOk)
         IN /\ workflow' = res.table
            /\ ctl' = [ctl EXCEPT ![w].pc = "done", ![w].ret = <<res.ret>>,
                                  ![w].dbError = ~dbOk]
    /\ UNCHANGED <<ingestVars, stepLog, runs>>

Next ==
    \/ Receive
    \/ ProcessMessage
    \/ CompleteMessage
    \/ Interrupt
    \/ Restart
    \/ \E w \in WorkflowIds : StartController(w)
    \/ \E w \in WorkflowIds : ExecStep(w)
    \/ \E w \in WorkflowIds : LogStep(w)
    \/ \E w \in WorkflowIds : UpdateStatus(w)

Spec == Init /\ [][Next]_vars

\* The system once message 1 has been delivered MaxDeliveries - 1 times, each
\* delivery stored and recorded and its acknowledgment failed: controllers
\* run over the workflows ingested so far while the last delivery comes in.
InitTail ==
    /\ \E n \in 1..MaxSteps :
         /\ body = [m \in Messages |-> [json |-> TRUE, Steps |-> n]]
         /\ container = {[id |-> i, partitionKey |-> i,
                          messageData |-> json_loads(1, body[1]).data] :
                            i \in 1..(MaxDeliveries - 1)}
    /\ workflow = {[id |-> i, status |-> "Initial", current_step |-> 1] :
                      i \in 1..(MaxDeliveries - 1)}
    /\ queue = Messages
    /\ pc = "receive"
    /\ message = NoDoc
    /\ doc_id = NoDoc
    /\ inserted = FALSE
    /\ nextId = MaxDeliveries
    /\ deliveries = MaxDeliveries - 1
    /\ stepLog = [w \in WorkflowIds |-> <<>>]
    /\ ctl = [w \in WorkflowIds |-> IdleCtl]
    /\ runs = 0
    /\ call = NoCall

SpecTail == InitTail /\ [][Next]_vars

\* The controllers on their own, once every delivery has been ingested (all
\* of message 1, each stored and recorded, each acknowledgment failed).
InitCtl ==
    /\ \E n \in 1..MaxSteps :
         /\ body = [m \in Messages |-> [json |-> TRUE, Steps |-> n]]
         /\ container = {[id |-> i, partitionKey |-> i,
                          messageData |-> json_loads(1, body[1]).data] :
                            i \in 1..MaxDeliveries}
    /\ workflow = {[id |-> i, status |-> "Initial", current_step |-> 1] :
                      i \in 1..MaxDeliveries}
    /\ queue = Messages
    /\ pc = "receive"
    /\ message = NoDoc
    /\ doc_id = NoDoc
    /\ inserted = FALSE
    /\ nextId = MaxDeliveries + 1
    /\ deliveries = MaxDeliveries
    /\ stepLog = [w \in WorkflowIds |-> <<>>]
    /\ ctl = [w \in WorkflowIds |-> IdleCtl]
    /\ runs = 0
    /\ call = NoCall

NextCtl ==
    \/ \E w \in WorkflowIds : StartController(w)
    \/ \E w \in WorkflowIds : ExecStep(w)
    \/ \E w \in WorkflowIds : LogStep(w)
    \/ \E w \in WorkflowIds : UpdateStatus(w)

SpecCtl == InitCtl /\ [][NextCtl]_vars

\* The ingestion process on its own (processor.py main): no controller runs.
NextIngest ==
    \/ Receive
    \/ ProcessMessage
    \/ CompleteMessage

SpecIngest == Init /\ [][NextIngest]_vars

\* The receive loop as long as it runs: each await of start_listening
\* returns or raises, so the loop keeps taking its next step.
SpecIngestFair ==
    /\ SpecIngest
    /\ WF_vars(Receive)
    /\ WF_vars(ProcessMessage)
    /\ WF_vars(CompleteMessage)

\* The ingestion process with shutdown and restart.
NextShutdown ==
    \/ NextIngest
    \/ Interrupt
    \/ Restart

SpecShutdown == Init /\ [][NextShutdown]_vars

\* Ingestion first, controllers afterwards: the ingestion process runs until
\* the first controller is started, and controllers are started once the
\* receiver has made all its deliveries and left the stores as in InitCtl.
IngestedAsInitCtl ==
    /\ pc = "receive"
    /\ deliveries = MaxDeliveries
    /\ queue = Messages
    /\ \E n \in 1..MaxSteps :
         /\ body = [m \in Messages |-> [json |-> TRUE, Steps |-> n]]
         /\ container = {[id |-> i, partitionKey |-> i,
                          messageData |-> json_loads(1, body[1]).data] :
                            i \in 1..MaxDeliveries}
    /\ {r.id : r \in workflow} = WorkflowIds

NextThen ==
    \/ runs = 0 /\ NextShutdown
    \/ IngestedAsInitCtl /\ NextCtl

SpecThen == Init /\ [][NextThen]_vars

\* The CommercialLoan plugin serving calls (commercial_loan_agent.py).
CallValidate ==
    /\ \E a \in Applications, llm \in LLMReplies :
         call' = [fn |-> "validate_application", arg |-> a,
                  raised |-> (llm = "raise"),
                  result |-> validate_application(a, llm)]
    /\ UNCHANGED <<queue, body, pc, message, doc_id, inserted, nextId, deliveries,
                   container, workflow, stepLog, ctl, runs>>

CallCreditScore ==
    /\ \E a \in Applications :
         \E score \in get_credit_score(a) :
            call' = [fn |-> "get_credit_score", arg |-> a, raised |-> FALSE,
                     result |-> score]
    /\ UNCHANGED <<queue, body, pc, message, doc_id, inserted, nextId, deliveries,
                   container, workflow, stepLog, ctl, runs>>

CallApproval ==
    /\ \E a \in Applications :
         \E status \in get_approval(a) :
            call' = [fn |-> "get_approval", arg |-> a, raised |-> FALSE,
                     result |-> status]
    /\ UNCHANGED <<queue, body, pc, message, doc_id, inserted, nextId, deliveries,
                   container, workflow, stepLog, ctl, runs>>

NextCaps ==
    \/ CallValidate
    \/ CallCreditScore
    \/ CallApproval

SpecCaps == Init /\ [][NextCaps]_vars

\* ---------------------------------------------------------------- helpers
Terminal == {"Completed", "Failed"}

\* The workflow rows of one workflow id.
Rows(w) == {r \in workflow : r.id = w}

\* The documents stored for deliveries of message m.
DocsOf(m) ==
    {d \in container :
        IF "rawMessage" \in DOMAIN d.messageData
        THEN d.messageData.rawMessage = m
        ELSE d.messageData.ref = m}

\* The step-log rows written by the present (or last) run for w.
RunLog(w) == SubSeq(stepLog[w], ctl[w].base + 1, Len(stepLog[w]))

\* Rows 1..k, all "Successful" but a failed last one.
ExpectedLog(k, failedLast) ==
    [i \in 1..k |-> [step |-> i,
                     status |-> IF failedLast /\ i = k THEN "Failed" ELSE "Successful"]]

\* ----------------------------------------------------------------- claims
\* C1: a message is acknowledged (removed from the queue by
\* complete_message) only after both the document write and the
\* WorkflowRecord insert for it have succeeded.
C1_AckOnlyAfterBothWrites ==
    [][queue' # queue => (doc_id # NoDoc /\ inserted)]_vars

\* C2: when steps 1..k succeed and step k+1 fails, a finished run has
\* written exactly the k+1 rows for steps 1..k+1 in order, the workflow row
\* is (Failed, k+1), and only steps 1..k+1 were attempted.
C2_FailedRun ==
    \A w \in WorkflowIds :
        (ctl[w].pc = "done" /\ ctl[w].n > 0 /\ ~ctl[w].ok) =>
            /\ RunLog(w) = ExpectedLog(ctl[w].step, TRUE)
            /\ ctl[w].attempted = [i \in 1..ctl[w].step |-> i]
            /\ Rows(w) = {[id |-> w, status |-> "Failed",
                           current_step |-> ctl[w].step]}

\* C3: when all N steps succeed, a finished run has written exactly the N
\* rows for steps 1..N in order and the workflow row is (Completed, N).
C3_CompletedRun ==
    \A w \in WorkflowIds :
        (ctl[w].pc = "done" /\ ctl[w].n > 0 /\ ctl[w].ok) =>
            /\ RunLog(w) = ExpectedLog(ctl[w].n, FALSE)
            /\ Rows(w) = {[id |-> w, status |-> "Completed",
                           current_step |-> ctl[w].n]}

\* C4: once a workflow row is Completed or Failed, no step changes its
\* status or current_step.
C4_TerminalIsFinal ==
    [][\A r \in workflow : r.status \in Terminal => r \in workflow']_vars

\* C5: the current_step of a workflow row never decreases.
C5_StepMonotone ==
    [][\A r \in workflow : \A q \in workflow' :
          q.id = r.id => q.current_step >= r.current_step]_vars

\* C6: every stored document has exactly one workflow row with its id.
C6_OneRecordPerDocument ==
    \A d \in container : Cardinality(Rows(d.id)) = 1

C8_RawMessageRecorded ==
    (pc = "complete" /\ ~body[message].json) =>
        /\ \E d \in container :
              d.id = doc_id /\ d.messageData = raw_message_data(message)
        /\ Cardinality(Rows(doc_id)) = 1

\* C9: over any number of deliveries of one message, at most one workflow
\* row results from it.
C9_RedeliveryIdempotent ==
    \A m \in Messages :
        Cardinality({r \in workflow : \E d \in DocsOf(m) : d.id = r.id}) <= 1

\* C10: for each workflow, every step-log write has a step index above the
\* previous one's, and none is made once the workflow row is terminal.
C10_LogOrderedBeforeTerminal ==
    [][\A w \in WorkflowIds :
          stepLog'[w] # stepLog[w] =>
             /\ Len(stepLog'[w]) = Len(stepLog[w]) + 1
             /\ Len(stepLog[w]) > 0 =>
                    stepLog[w][Len(stepLog[w])].step
                       < stepLog'[w][Len(stepLog'[w])].step
             /\ \A r \in Rows(w) : r.status \notin Terminal]_vars

\* C11: a run on malformed input (no document for the workflow id, or a
\* document without Steps) executes no step and leaves the workflow row
\* (Failed, 0).
C11_MalformedMarkedFailed ==
    \A w \in WorkflowIds :
        (ctl[w].pc = "done" /\ ctl[w].n = 0) =>
            /\ ctl[w].attempted = <<>>
            /\ Rows(w) = {[id |-> w, status |-> "Failed", current_step |-> 0]}

\* C12: when the service call behind validate_application raises, the
\* capability does not report a successful validation.
C12_DependencyErrorReported ==
    (call.fn = "validate_application" /\ call.raised) =>
        call.result.validation_result \notin
            {"VALID", "VALID: Application contains all required information"}

\* C13: every workflow row's status is one of Initial, InProgress,
\* Completed, Failed.
C13_StatusDomain ==
    \A r \in workflow :
        r.status \in {"Initial", "InProgress", "Completed", "Failed"}

\* C14: every value get_credit_score returns is an integer in 300..850.
C14_CreditScoreRange ==
    call.fn = "get_credit_score" => call.result \in 300..850

\* C14 witness: get_credit_score has returned the top of its range.
C14_Witness ==
    call.fn = "get_credit_score" /\ call.result = 840

\* C15: a step of the controller of one workflow leaves the workflow row
\* and the step log of every other workflow as they were.
C15_WorkflowsIndependent ==
    [][\A v \in WorkflowIds :
          ctl'[v] = ctl[v] =>
             /\ stepLog'[v] = stepLog[v]
             /\ {r \in workflow' : r.id = v} = Rows(v)]_vars

\* C15 witness: two controllers are in the middle of their runs, each with
\* a step logged, and one workflow has had its terminal update.
C15_Witness ==
    \E v, w \in WorkflowIds :
        /\ v # w
        /\ ctl[v].pc \in {"exec", "log", "update"}
        /\ ctl[w].pc = "done"
        /\ Len(stepLog[v]) > 0
        /\ Len(stepLog[w]) > 0
        /\ \E r \in Rows(w) : r.status # "Initial"
        /\ \E r \in Rows(v) : r.status = "Initial"

\* C16: every step keeps each workflow's step log as a prefix of the new
\* one and keeps a row for every workflow id that had one; a step that
\* changes the step log leaves the workflow table alone and the reverse.
C16_AppendOnly ==
    [][/\ \A w \in WorkflowIds :
            /\ Len(stepLog[w]) <= Len(stepLog'[w])
            /\ SubSeq(stepLog'[w], 1, Len(stepLog[w])) = stepLog[w]
       /\ \A r \in workflow : \E q \in workflow' : q.id = r.id
       /\ stepLog' # stepLog => workflow' = workflow
       /\ workflow' # workflow => stepLog' = stepLog]_vars

\* C16 witness: a workflow with two step-log rows whose row has been
\* updated, next to a row inserted by the last delivery.
C16_Witness ==
    \E w \in WorkflowIds :
        /\ Len(stepLog[w]) >= 2
        /\ \E r \in Rows(w) : r.status \in Terminal
        /\ Rows(MaxDeliveries) # {}

\* C17: when the loop has been stopped with a message in flight, that
\* message has been stored, recorded and acknowledged.
C17_GracefulShutdown ==
    (pc = "stopped" /\ message # NoDoc) =>
        (doc_id # NoDoc /\ inserted /\ message \notin queue)

\* C18: log_step and update_workflow_status return True whatever happened,
\* and a call that met a database error changed neither table.
C18_AlwaysTrue ==
    [][\A w \in WorkflowIds :
          (ctl[w].pc \in {"log", "update"} /\ ctl'[w] # ctl[w]) =>
             /\ ctl'[w].ret = <<TRUE>>
             /\ ctl'[w].dbError => (stepLog' = stepLog /\ workflow' = workflow)]_vars

\* C18 witness: one controller got True from a call that met a database
\* error, another got True from a call that wrote.
C18_Witness ==
    \E v, w \in WorkflowIds :
        /\ ctl[v].ret = <<TRUE>> /\ ctl[v].dbError
        /\ ctl[w].ret = <<TRUE>> /\ ~ctl[w].dbError /\ Len(stepLog[w]) > 0

\* C19: every workflow row has the id of a stored document, and no record
\* was inserted for a message whose document write failed.
C19_RecordHasDocument ==
    /\ \A r \in workflow : \E d \in container : d.id = r.id
    /\ doc_id = NoDoc => ~inserted

\* C19 witness: the document write of a JSON message has just failed while
\* an earlier delivery has its record.
C19_Witness ==
    /\ pc = "complete"
    /\ body[message].json
    /\ doc_id = NoDoc
    /\ workflow # {}

\* C20: whatever complete_message does, the loop comes back to receiving,
\* and while the queue holds another message and the receiver still
\* delivers, a further message gets processed.
C20_LoopGoesOn ==
    /\ (pc = "complete") ~> (pc = "receive")
    /\ \A k \in 1..(MaxDeliveries - 1) :
          (pc = "complete" /\ deliveries = k /\ Cardinality(queue) > 1)
             ~> (pc = "complete" /\ deliveries = k + 1)

\* C20 witness: a message is being processed after the acknowledgment of
\* an earlier delivery raised (no message has left the queue).
C20_Witness ==
    /\ pc = "process"
    /\ deliveries >= 2
    /\ queue = Messages

====
